---- MODULE Spec2Model ----
(***************************************************************************)
(* Model of nodes/common.py of ComfyUI-RTX-Remix: the context plumbing     *)
(* decorators, the context nodes and the small utility nodes.              *)
(*                                                                         *)
(* Python values are modelled as follows.  A dict and the attribute table  *)
(* of an object or class are functions whose DOMAIN is the set of keys     *)
(* present; a tuple and a list are sequences; a str used as text is a      *)
(* sequence of one-character strings; a str used as a name (a key, a type  *)
(* name) is a TLA+ string.  A call that raises is recorded with the name   *)
(* of the exception in the field "raised" ("" when the call returned).     *)
(***************************************************************************)
EXTENDS Integers, Sequences, FiniteSets, TLC

VARIABLES
    orig,       \* the node class under decoration, as written in its class body
    cls,        \* the same class object, as the decorators have left it
    instance,   \* attribute table of one instance of a context-wrapped node
    graph,      \* one graph run of the host: the context travelling on the wire
    call        \* the most recent call: its operation, inputs and outcome

vars == <<orig, cls, instance, graph, call>>

\* ---------------------------------------------------------------- bounds
MaxLen == 1         \* longest text fed to the string nodes
MaxBatch == 2       \* longest batch the host hands to Switch
MaxArgs == 1        \* most positional arguments of a wrapped call
MaxOutputs == 2     \* most declared outputs of a node class under decoration
MaxHops == 2        \* most context-wrapped nodes chained in one graph run
MaxFeed == 2        \* most times an InvertBool output is fed back
MaxCalls == 2       \* INPUT_TYPES calls counted on one class

\* ---------------------------------------------------------------- values
Chars == {"a", "_"}
\* the texts given to StringConcatenate: each argument over letters of its own
FirstChars == {"a"}
SecondChars == {"b"}
SeparatorChars == {"-"}
Addresses == {"10.0.0.5", "127.0.0.1"}
Ports == {8011, 0}

RECURSIVE SeqsUpTo(_, _)
SeqsUpTo(S, n) ==
    IF n = 0 THEN {<<>>}
    ELSE LET shorter == SeqsUpTo(S, n - 1)
         IN shorter \cup {Append(s, x) : s \in {t \in shorter : Len(t) = n - 1}, x \in S}

Strings == SeqsUpTo(Chars, MaxLen)

\* values of different Python types travelling between nodes
Values == {[type |-> "STRING", value |-> "x"], [type |-> "INT", value |-> "1"]}
DefaultValue == [type |-> "STRING", value |-> "out"]

RemixContext(address, port) == [address |-> address, port |-> port]
Contexts == {RemixContext(a, p) : a \in Addresses, p \in Ports}
\* the contexts passed by keyword to a wrapped call
KeywordContexts == {RemixContext("10.0.0.5", 8011), RemixContext("127.0.0.1", 0)}
\* the context an execution method stores when it reassigns self.context
ReassignedContext == RemixContext("0.0.0.0", 1)

CONTEXT_TYPE == "RTX_REMIX_CONTEXT"

\* ---------------------------------------------------------------- Python
EmptyDict == [k \in {} |-> TRUE]
hasattr(obj, name) == name \in DOMAIN obj
getattr(obj, name, default) == IF name \in DOMAIN obj THEN obj[name] ELSE default
setattr(obj, name, v) == [k \in DOMAIN obj \cup {name} |-> IF k = name THEN v ELSE obj[k]]
\* dict.pop(key) of a present key: the dict that remains
dict_pop(d, key) == [k \in DOMAIN d \ {key} |-> d[k]]
Restrict(d, keys) == [k \in keys |-> d[k]]

\* ------------------------------------------------------- schema builders
get_context_inputs ==
    [required |-> [context |-> <<CONTEXT_TYPE, [forceInput |-> "True"]>>]]

get_enabled_inputs ==
    [required |-> [enable_this_node |-> <<"BOOLEAN", [default |-> "True"]>>]]

get_remix_api_inputs ==
    [required |-> [address |-> <<"STRING", [forceInput |-> "True"]>>,
                   port |-> <<"INT", [forceInput |-> "True"]>>]]

InputFn(name) ==
    CASE name = "get_context_inputs" -> get_context_inputs
      [] name = "get_enabled_inputs" -> get_enabled_inputs
      [] name = "get_remix_api_inputs" -> get_remix_api_inputs

\* utils.merge_dict: key-wise union of two dicts of dicts; where both hold a
\* dict under a key the two are merged key by key.  What becomes of an inner
\* key that both define is not fixed by the union; here the second dict's
\* entry stands, and no schema of the model makes the two meet.
merge_dict(d1, d2) ==
    [s \in DOMAIN d1 \cup DOMAIN d2 |->
        IF s \in DOMAIN d1 /\ s \in DOMAIN d2
        THEN [k \in DOMAIN d1[s] \cup DOMAIN d2[s] |->
                 IF k \in DOMAIN d2[s] THEN d2[s][k] ELSE d1[s][k]]
        ELSE IF s \in DOMAIN d1 THEN d1[s] ELSE d2[s]]

\* wrap_input_types_with whose wrapper forgets func() and returns input_fn()
wrap_input_types_with_forgets_func(func, input_fn) ==
    [body |-> EmptyDict, wraps |-> <<input_fn>>]

\* A class's INPUT_TYPES attribute is a callable: the schema function of the
\* class body ("body", a schema) under the closures wrap_input_types_with
\* has laid over it ("wraps", innermost first, each naming its input_fn).
wrap_input_types_with(func, input_fn) ==
    [body |-> func.body, wraps |-> Append(func.wraps, input_fn)]

\* calling such a callable: wrapper() returns merge_dict(input_fn(), func())
RECURSIVE CallInputTypes(_)
CallInputTypes(func) ==
    IF func.wraps = <<>> THEN func.body
    ELSE LET n == Len(func.wraps)
             inner == [body |-> func.body, wraps |-> SubSeq(func.wraps, 1, n - 1)]
         IN merge_dict(InputFn(func.wraps[n]), CallInputTypes(inner))

\* ------------------------------------------------- execution methods
\* An original execution method f is described by what it does: how many
\* values it returns ("n") and its kind: "echo" returns the first argument
\* it was given (a fixed value when given none), "reassign" assigns
\* self.context before returning fixed values.
FuncKinds == {"echo", "reassign"}

FirstArg(args, kwargs) ==
    IF args # <<>> THEN args[1]
    ELSE IF "value" \in DOMAIN kwargs THEN kwargs["value"]
    ELSE DefaultValue

\* func(self, *args, **kwargs): the tuple returned and self as the call leaves it
CallFunc(func, self, args, kwargs) ==
    [ret |-> [i \in 1..func.n |->
                 IF func.kind = "echo" THEN FirstArg(args, kwargs) ELSE DefaultValue],
     instance |-> IF func.kind = "reassign"
                  THEN setattr(self, "context", ReassignedContext)
                  ELSE self]

\* ContextExecutionFuncWrapper(func): the descriptor object holding func
ContextExecutionFuncWrapper(func) == [func |-> func]

\* the wrapper reading instance.context after self.func has returned
wrapper_reads_context_after_call(self, inst, args, kwargs) ==
    IF "context" \notin DOMAIN kwargs \/ "enable_this_node" \notin DOMAIN kwargs
    THEN [raised |-> "KeyError", ret |-> <<>>, received |-> <<>>,
          instance |-> IF "context" \in DOMAIN kwargs
                       THEN setattr(inst, "context", kwargs["context"]) ELSE inst]
    ELSE LET inst2 == setattr(setattr(inst, "context", kwargs["context"]),
                              "enable_this_node", kwargs["enable_this_node"])
             kwargs2 == dict_pop(dict_pop(kwargs, "context"), "enable_this_node")
             r == CallFunc(self.func, inst2, args, kwargs2)
         IN [raised |-> "", ret |-> <<r.instance["context"]>> \o r.ret,
             instance |-> r.instance,
             received |-> <<[args |-> args, kwargs |-> kwargs2]>>]

\* the wrapper popping enable_this_node with a default of True
wrapper_defaults_enable(self, inst, args, kwargs) ==
    IF "context" \notin DOMAIN kwargs
    THEN [raised |-> "KeyError", ret |-> <<>>, instance |-> inst, received |-> <<>>]
    ELSE LET inst2 == setattr(setattr(inst, "context", kwargs["context"]),
                              "enable_this_node",
                              getattr(kwargs, "enable_this_node", TRUE))
             kwargs2 == dict_pop(dict_pop(kwargs, "context"), "enable_this_node")
             r == CallFunc(self.func, inst2, args, kwargs2)
         IN [raised |-> "", ret |-> <<inst2["context"]>> \o r.ret,
             instance |-> r.instance,
             received |-> <<[args |-> args, kwargs |-> kwargs2]>>]

\* the wrapper popping both keys before it assigns either attribute
wrapper_pops_before_assigning(self, inst, args, kwargs) ==
    IF "context" \notin DOMAIN kwargs \/ "enable_this_node" \notin DOMAIN kwargs
    THEN [raised |-> "KeyError", ret |-> <<>>, instance |-> inst, received |-> <<>>]
    ELSE LET inst2 == setattr(setattr(inst, "context", kwargs["context"]),
                              "enable_this_node", kwargs["enable_this_node"])
             kwargs2 == dict_pop(dict_pop(kwargs, "context"), "enable_this_node")
             r == CallFunc(self.func, inst2, args, kwargs2)
         IN [raised |-> "", ret |-> <<inst2["context"]>> \o r.ret,
             instance |-> r.instance,
             received |-> <<[args |-> args, kwargs |-> kwargs2]>>]

\* The wrapper that ContextExecutionFuncWrapper.__get__ binds to an instance,
\* called with *args and **kwargs.  Each kwargs.pop raises KeyError when its
\* key is missing; the attribute assigned before a failing pop stays
\* assigned.  The left operand (instance.context,) is evaluated before
\* self.func is called.  "received" lists what each call of func was given.
wrapper(self, inst, args, kwargs) ==
    IF "context" \notin DOMAIN kwargs
    THEN [raised |-> "KeyError", ret |-> <<>>, instance |-> inst, received |-> <<>>]
    ELSE LET inst1 == setattr(inst, "context", kwargs["context"])
             kwargs1 == dict_pop(kwargs, "context")
         IN IF "enable_this_node" \notin DOMAIN kwargs1
            THEN [raised |-> "KeyError", ret |-> <<>>, instance |-> inst1,
                  received |-> <<>>]
            ELSE LET inst2 == setattr(inst1, "enable_this_node",
                                      kwargs1["enable_this_node"])
                     kwargs2 == dict_pop(kwargs1, "enable_this_node")
                     head == <<inst2["context"]>>
                     r == CallFunc(self.func, inst2, args, kwargs2)
                 IN [raised |-> "", ret |-> head \o r.ret, instance |-> r.instance,
                     received |-> <<[args |-> args, kwargs |-> kwargs2]>>]

\* calling the attribute named by FUNCTION on an instance: through the
\* descriptor when the method was wrapped, directly otherwise
CallMethod(method, inst, args, kwargs) ==
    IF "func" \in DOMAIN method
    THEN wrapper(method, inst, args, kwargs)
    ELSE LET r == CallFunc(method, inst, args, kwargs)
         IN [raised |-> "", ret |-> r.ret, instance |-> r.instance,
             received |-> <<[args |-> args, kwargs |-> kwargs]>>]

\* --------------------------------------------------- class decorators
\* add_context_outputs putting the context entry last instead of first
add_context_outputs_appends(c) ==
    LET c1 == setattr(c, "RETURN_TYPES",
                      getattr(c, "RETURN_TYPES", <<>>) \o <<CONTEXT_TYPE>>)
        c2 == setattr(c1, "RETURN_NAMES",
                      getattr(c1, "RETURN_NAMES", <<>>) \o <<"context">>)
    IN IF hasattr(c2, "OUTPUT_IS_LIST")
       THEN setattr(c2, "OUTPUT_IS_LIST",
                    getattr(c2, "OUTPUT_IS_LIST", <<>>) \o <<FALSE>>)
       ELSE c2

add_context_outputs(c) ==
    LET c1 == setattr(c, "RETURN_TYPES",
                      <<CONTEXT_TYPE>> \o getattr(c, "RETURN_TYPES", <<>>))
        c2 == setattr(c1, "RETURN_NAMES",
                      <<"context">> \o getattr(c1, "RETURN_NAMES", <<>>))
    IN IF hasattr(c2, "OUTPUT_IS_LIST")
       THEN setattr(c2, "OUTPUT_IS_LIST",
                    <<FALSE>> \o getattr(c2, "OUTPUT_IS_LIST", <<>>))
       ELSE c2

add_context_input_enabled_and_output(c) ==
    LET c1 == add_context_outputs(c)
        c2 == setattr(c1, "INPUT_TYPES",
                      wrap_input_types_with(c1["INPUT_TYPES"], "get_context_inputs"))
        c3 == setattr(c2, "INPUT_TYPES",
                      wrap_input_types_with(c2["INPUT_TYPES"], "get_enabled_inputs"))
        function_name == c3["FUNCTION"]
        func == c3[function_name]
        wrapped_func == ContextExecutionFuncWrapper(func)
    IN setattr(c3, function_name, wrapped_func)

\* ------------------------------------------------------- the node classes
\* Each class is its attribute table; the execution method is an operator.
RestAPIDetails ==
    [RETURN_TYPES |-> <<"STRING", "INT">>,
     RETURN_NAMES |-> <<"address", "port">>,
     FUNCTION |-> "get_address"]

RestAPIDetails_get_address(address, port) == <<address, port>>

StartContext ==
    add_context_outputs(
        [RETURN_TYPES |-> <<>>, RETURN_NAMES |-> <<>>, FUNCTION |-> "execute"])

\* StartContext.execute ignoring its port input for the default port
StartContext_execute_default_port(address, port) == <<RemixContext(address, 8011)>>

StartContext_execute(address, port) == <<RemixContext(address, port)>>

EndContext ==
    [RETURN_TYPES |-> <<>>, RETURN_NAMES |-> <<>>, FUNCTION |-> "execute",
     OUTPUT_NODE |-> TRUE]

EndContext_execute(context) == <<>>

StringConstant == [RETURN_TYPES |-> <<"STRING">>, FUNCTION |-> "get_string"]

StringConstant_get_string(string) == <<string>>

StringConcatenate == [RETURN_TYPES |-> <<"STRING">>, FUNCTION |-> "execute"]

\* the default of the separator parameter
DefaultSeparator == <<"_">>

\* StringConcatenate.execute putting the separator after both strings
StringConcatenate_execute_separator_last(string1, string2, separator) ==
    <<string1 \o string2 \o separator>>

StringConcatenate_execute(string1, string2, separator) ==
    <<string1 \o separator \o string2>>

\* class AnyType(str): an object is its class and its text
AnyType(text) == [class |-> "AnyType", text |-> text]
str(text) == [class |-> "str", text |-> text]

\* AnyType without its override: the inherited str.__ne__
AnyType___ne___inherited(self, value) == self.text # value.text

AnyType___ne__(self, value) == FALSE

\* str.__eq__ and str.__ne__, which compare the texts
str___eq__(self, value) == self.text = value.text
str___ne__(self, value) == self.text # value.text

\* x != y: the right operand's __ne__ is tried first when its class is a
\* proper subclass of the left operand's class and overrides the method
PyNotEqual(x, y) ==
    IF x.class = "str" /\ y.class = "AnyType" THEN AnyType___ne__(y, x)
    ELSE IF x.class = "AnyType" THEN AnyType___ne__(x, y)
    ELSE str___ne__(x, y)

\* x == y: AnyType defines no __eq__, so str.__eq__ answers on either side
PyEqual(x, y) ==
    IF x.class = "str" /\ y.class = "AnyType" THEN str___eq__(y, x)
    ELSE str___eq__(x, y)

_any == AnyType("*")

Switch ==
    [RETURN_TYPES |-> <<_any>>, INPUT_IS_LIST |-> TRUE, OUTPUT_IS_LIST |-> <<TRUE>>,
     FUNCTION |-> "execute"]

Switch_INPUT_TYPES ==
    [required |-> [if_true |-> <<_any, EmptyDict>>,
                   if_false |-> <<_any, EmptyDict>>,
                   switcher |-> <<str("BOOLEAN"),
                                  [default |-> "True", forceInput |-> "True"]>>]]

\* Switch.execute testing the switcher list itself instead of its first item
Switch_execute_tests_list(if_true, if_false, switcher) ==
    IF switcher = <<>>
    THEN [raised |-> "", ret |-> <<if_false>>]
    ELSE [raised |-> "", ret |-> <<if_true>>]

\* INPUT_IS_LIST: every argument arrives as a list; switcher[0] raises
\* IndexError on an empty list
Switch_execute(if_true, if_false, switcher) ==
    IF switcher = <<>>
    THEN [raised |-> "IndexError", ret |-> <<>>]
    ELSE [raised |-> "", ret |-> <<IF switcher[1] THEN if_true ELSE if_false>>]

InvertBool == [RETURN_TYPES |-> <<"BOOLEAN">>, FUNCTION |-> "execute"]

\* InvertBool.execute returning its input
InvertBool_execute_identity(value) == <<value>>

InvertBool_execute(value) == <<~value>>

StrToList ==
    [RETURN_TYPES |-> <<"STRING">>, OUTPUT_IS_LIST |-> <<TRUE>>, FUNCTION |-> "execute"]

StrToList_execute(value) == <<<<value>>>>

NodeClass(name) ==
    CASE name = "RestAPIDetails" -> RestAPIDetails
      [] name = "StartContext" -> StartContext
      [] name = "EndContext" -> EndContext
      [] name = "StringConstant" -> StringConstant
      [] name = "StringConcatenate" -> StringConcatenate
      [] name = "Switch" -> Switch
      [] name = "InvertBool" -> InvertBool
      [] name = "StrToList" -> StrToList

NodeNames ==
    {"RestAPIDetails", "StartContext", "EndContext", "StringConstant",
     "StringConcatenate", "Switch", "InvertBool", "StrToList"}

\* ------------------------------------------------- classes under decoration
OutputTypes == {"STRING", "INT"}

OutputName(t) == IF t = "STRING" THEN "text" ELSE "number"

\* input schemas a class body may declare
BodySchemas ==
    {[required |-> [value |-> <<"STRING", [forceInput |-> "True"]>>]],
     [required |-> [string1 |-> <<"STRING", [default |-> ""]>>,
                    value |-> <<"INT", [default |-> "0"]>>],
      optional |-> [separator |-> <<"STRING", [default |-> "_"]>>]],
     [optional |-> [value |-> <<"INT", [default |-> "0"]>>]]}

\* The classes as written: RETURN_TYPES, RETURN_NAMES and OUTPUT_IS_LIST are
\* each declared or left out; the execution method returns as many values as
\* RETURN_TYPES declares, or one more (as StartContext.execute does).
FullClasses ==
    {[RETURN_TYPES |-> rt,
      RETURN_NAMES |-> [i \in 1..Len(rt) |-> OutputName(rt[i])],
      OUTPUT_IS_LIST |-> [i \in 1..Len(rt) |-> TRUE],
      INPUT_TYPES |-> [body |-> schema, wraps |-> <<>>],
      FUNCTION |-> "execute",
      execute |-> [kind |-> kind, n |-> Len(rt) + extra]] :
        rt \in SeqsUpTo(OutputTypes, MaxOutputs), schema \in BodySchemas,
        kind \in {"echo"}, extra \in {0, 1}}

OriginalClasses ==
    {Restrict(c, {"INPUT_TYPES", "FUNCTION", "execute"} \cup declared) :
        c \in FullClasses,
        declared \in {{"RETURN_TYPES", "RETURN_NAMES"}, {"RETURN_TYPES"},
                      {"RETURN_TYPES", "RETURN_NAMES", "OUTPUT_IS_LIST"}, {}}}

PlainClass ==
    [RETURN_TYPES |-> <<"STRING">>, RETURN_NAMES |-> <<"text">>,
     INPUT_TYPES |-> [body |-> [required |-> [value |-> <<"STRING", [forceInput |-> "True"]>>]],
                      wraps |-> <<>>],
     FUNCTION |-> "execute", execute |-> [kind |-> "echo", n |-> 1]]

NoCall == [op |-> "none"]
IdleGraph == [phase |-> "idle"]

\* what the host passes by keyword to a wrapped call
KeywordsOver(keys) ==
    {[k \in keys |-> IF k = "context" THEN c
                     ELSE IF k = "enable_this_node" THEN e ELSE v] :
        c \in KeywordContexts, e \in BOOLEAN, v \in {DefaultValue}}

Keywords == UNION {KeywordsOver(keys) : keys \in SUBSET {"context", "enable_this_node", "value"}}

Funcs == {[kind |-> kind, n |-> n] : kind \in FuncKinds, n \in 0..MaxOutputs}

\* ============================================================ actions
\* ---- the utility nodes, each called by the host with inputs of its schema
GetAddress ==
    /\ \E address \in Addresses, port \in Ports :
          call' = [op |-> "RestAPIDetails", address |-> address, port |-> port,
                   raised |-> "", ret |-> RestAPIDetails_get_address(address, port)]
    /\ UNCHANGED <<orig, cls, instance, graph>>

StartContextExecute ==
    /\ \E address \in Addresses, port \in Ports :
          call' = [op |-> "StartContext", address |-> address, port |-> port,
                   raised |-> "", ret |-> StartContext_execute(address, port)]
    /\ UNCHANGED <<orig, cls, instance, graph>>

EndContextExecute ==
    /\ \E context \in Contexts :
          call' = [op |-> "EndContext", context |-> context,
                   raised |-> "", ret |-> EndContext_execute(context)]
    /\ UNCHANGED <<orig, cls, instance, graph>>

GetString ==
    /\ \E string \in Strings :
          call' = [op |-> "StringConstant", string |-> string,
                   raised |-> "", ret |-> StringConstant_get_string(string)]
    /\ UNCHANGED <<orig, cls, instance, graph>>

\* "passed" holds the separator argument when the caller supplies one
Concatenate ==
    /\ \E string1 \in SeqsUpTo(FirstChars, MaxLen),
          string2 \in SeqsUpTo(SecondChars, MaxLen) :
          \/ \E separator \in SeqsUpTo(SeparatorChars, MaxLen) :
                call' = [op |-> "StringConcatenate", string1 |-> string1,
                         string2 |-> string2, passed |-> <<separator>>, raised |-> "",
                         ret |-> StringConcatenate_execute(string1, string2, separator)]
          \/ call' = [op |-> "StringConcatenate", string1 |-> string1,
                      string2 |-> string2, passed |-> <<>>, raised |-> "",
                      ret |-> StringConcatenate_execute(string1, string2,
                                                        DefaultSeparator)]
    /\ UNCHANGED <<orig, cls, instance, graph>>

\* INPUT_IS_LIST: the host hands each input over as a list
ValueBatches ==
    {<<v>> : v \in Values} \cup
    {<<[type |-> "STRING", value |-> "x"], [type |-> "INT", value |-> "1"]>>}

SwitchExecute ==
    /\ \E if_true \in ValueBatches, if_false \in ValueBatches,
          switcher \in SeqsUpTo(BOOLEAN, MaxBatch) :
          LET r == Switch_execute(if_true, if_false, switcher)
          IN call' = [op |-> "Switch", if_true |-> if_true, if_false |-> if_false,
                      switcher |-> switcher, raised |-> r.raised, ret |-> r.ret]
    /\ UNCHANGED <<orig, cls, instance, graph>>

\* InvertBool is given a fresh boolean ("fed" 0, "first" the boolean), or the
\* output of the InvertBool call before it ("fed" counts the feeds in a row,
\* "first" stays the boolean the row began with)
Invert ==
    /\ \/ \E value \in BOOLEAN :
             call' = [op |-> "InvertBool", value |-> value, first |-> value, fed |-> 0,
                      raised |-> "", ret |-> InvertBool_execute(value)]
       \/ /\ call.op = "InvertBool"
          /\ call.fed < MaxFeed
          /\ call' = [op |-> "InvertBool", value |-> call.ret[1], first |-> call.first,
                      fed |-> call.fed + 1,
                      raised |-> "", ret |-> InvertBool_execute(call.ret[1])]
    /\ UNCHANGED <<orig, cls, instance, graph>>

ToList ==
    /\ \E value \in Strings :
          call' = [op |-> "StrToList", value |-> value,
                   raised |-> "", ret |-> StrToList_execute(value)]
    /\ UNCHANGED <<orig, cls, instance, graph>>

\* the type names the host compares against the match-all type
TypeNames == {"STRING", "INT", "BOOLEAN", "*", CONTEXT_TYPE}

\* the match-all type as Switch declares it for a slot
DeclaredType(slot) ==
    IF slot = "output" THEN Switch.RETURN_TYPES[1]
    ELSE Switch_INPUT_TYPES.required[slot][1]

\* the host compares the type declared for a slot of Switch with the type
\* name t of the other end of a link, with == or with !=, either way round
CompareTypes ==
    /\ \E slot \in {"if_true", "if_false", "output"}, t \in TypeNames,
          side \in {"left", "right"} :
          LET a == DeclaredType(slot)
              x == IF side = "left" THEN a ELSE str(t)
              y == IF side = "left" THEN str(t) ELSE a
          IN call' = [op |-> "compare", slot |-> slot, t |-> t, side |-> side,
                      raised |-> "",
                      eq |-> PyEqual(x, y), ne |-> PyNotEqual(x, y)]
    /\ UNCHANGED <<orig, cls, instance, graph>>

\* ---- a class under decoration
DecorateOutputs ==
    /\ cls.decorator = "none"
    /\ cls' = [decorator |-> "add_context_outputs",
               attrs |-> add_context_outputs(cls.attrs)]
    /\ UNCHANGED <<orig, instance, graph, call>>

DecorateInputEnabledAndOutput ==
    /\ cls.decorator = "none"
    /\ cls' = [decorator |-> "add_context_input_enabled_and_output",
               attrs |-> add_context_input_enabled_and_output(cls.attrs)]
    /\ UNCHANGED <<orig, instance, graph, call>>

\* cls.INPUT_TYPES(); "nth" counts the calls made in a row; "decorator" is
\* the decorator the class carried when the call was made
ClassInputTypes ==
    /\ call' = [op |-> "INPUT_TYPES", decorator |-> cls.decorator,
                nth |-> IF call.op = "INPUT_TYPES"
                        THEN IF call.nth < MaxCalls THEN call.nth + 1 ELSE MaxCalls
                        ELSE 1,
                raised |-> "", ret |-> CallInputTypes(cls.attrs["INPUT_TYPES"])]
    /\ UNCHANGED <<orig, cls, instance, graph>>

\* the host runs the class's execution method on a fresh instance, passing
\* by keyword the inputs the class's schema names
ClassExecute ==
    /\ \E kwargs \in Keywords :
          /\ ("context" \in DOMAIN kwargs /\ "enable_this_node" \in DOMAIN kwargs)
                <=> cls.decorator = "add_context_input_enabled_and_output"
          /\ "context" \in DOMAIN kwargs <=> "enable_this_node" \in DOMAIN kwargs
          /\ LET r == CallMethod(cls.attrs[cls.attrs["FUNCTION"]], EmptyDict,
                                 <<>>, kwargs)
             IN call' = [op |-> "execute", decorator |-> cls.decorator,
                         args |-> <<>>, kwargs |-> kwargs,
                         raised |-> r.raised, ret |-> r.ret, received |-> r.received]
    /\ UNCHANGED <<orig, cls, instance, graph>>

\* ---- wrapped calls on one instance, with whatever arguments
Invoke ==
    /\ \E func \in Funcs, args \in SeqsUpTo(Values, MaxArgs), kwargs \in Keywords :
          LET r == wrapper(ContextExecutionFuncWrapper(func), instance, args, kwargs)
          IN /\ call' = [op |-> "wrapper", func |-> func, args |-> args,
                         kwargs |-> kwargs, before |-> instance,
                         raised |-> r.raised, ret |-> r.ret, received |-> r.received]
             /\ instance' = r.instance
    /\ UNCHANGED <<orig, cls, graph>>

\* ---- one graph run: StartContext, a chain of wrapped nodes, EndContext
RunStart ==
    /\ graph.phase # "running"
    /\ \E address \in Addresses, port \in Ports :
          LET ret == StartContext_execute(address, port)
          IN /\ call' = [op |-> "StartContext", address |-> address, port |-> port,
                         raised |-> "", ret |-> ret]
             /\ graph' = [phase |-> "running", address |-> address, port |-> port,
                          wire |-> ret[1], hops |-> 0]
    /\ UNCHANGED <<orig, cls, instance>>

\* the next wrapped node of the chain: its context input is linked to the
\* first output of the node before it; each node has an instance of its own
RunNode ==
    /\ graph.phase = "running"
    /\ graph.hops < MaxHops
    /\ \E func \in Funcs, args \in SeqsUpTo(Values, MaxArgs),
          enable_this_node \in BOOLEAN, value \in Values :
          LET kwargs == [context |-> graph.wire,
                         enable_this_node |-> enable_this_node, value |-> value]
          IN LET r == wrapper(ContextExecutionFuncWrapper(func), EmptyDict, args, kwargs)
             IN /\ call' = [op |-> "node", func |-> func, args |-> args,
                            kwargs |-> kwargs, raised |-> r.raised, ret |-> r.ret,
                            received |-> r.received]
                /\ graph' = [graph EXCEPT !.wire = r.ret[1], !.hops = @ + 1]
    /\ UNCHANGED <<orig, cls, instance>>

RunEnd ==
    /\ graph.phase = "running"
    /\ LET ret == EndContext_execute(graph.wire)
       IN call' = [op |-> "EndContext", context |-> graph.wire,
                   raised |-> "", ret |-> ret]
    /\ graph' = [graph EXCEPT !.phase = "ended"]
    /\ UNCHANGED <<orig, cls, instance>>

\* ====================================================== specifications
\* the node classes of the module and a class under decoration
Init ==
    /\ orig \in OriginalClasses
    /\ cls = [decorator |-> "none", attrs |-> orig]
    /\ instance = EmptyDict
    /\ graph = IdleGraph
    /\ call = NoCall

Next ==
    \/ GetAddress
    \/ StartContextExecute
    \/ EndContextExecute
    \/ GetString
    \/ Concatenate
    \/ SwitchExecute
    \/ Invert
    \/ ToList
    \/ CompareTypes
    \/ DecorateOutputs
    \/ DecorateInputEnabledAndOutput
    \/ ClassInputTypes
    \/ ClassExecute

Spec == Init /\ [][Next]_vars

\* wrapped calls on one node instance
InitCalls ==
    /\ orig = PlainClass
    /\ cls = [decorator |-> "none", attrs |-> orig]
    /\ instance = EmptyDict
    /\ graph = IdleGraph
    /\ call = NoCall

NextCalls == Invoke

SpecCalls == InitCalls /\ [][NextCalls]_vars

\* the utility nodes alone
NextNodes ==
    \/ GetAddress
    \/ StartContextExecute
    \/ EndContextExecute
    \/ GetString
    \/ Concatenate
    \/ SwitchExecute
    \/ Invert
    \/ ToList
    \/ CompareTypes

SpecNodes == InitCalls /\ [][NextNodes]_vars

\* graph runs
NextGraph ==
    \/ RunStart
    \/ RunNode
    \/ RunEnd

SpecGraph == InitCalls /\ [][NextGraph]_vars

\* ========================================================= properties
Reserved == {"context", "enable_this_node"}

ContextPassedUnchanged ==
    /\ call.op = "StartContext" =>
          /\ Len(call.ret) = 1
          /\ call.ret[1].address = call.address
          /\ call.ret[1].port = call.port
    /\ graph.phase # "idle" =>
          /\ graph.wire.address = graph.address
          /\ graph.wire.port = graph.port
    /\ call.op = "node" =>
          /\ call.raised = ""
          /\ call.ret[1].address = graph.address
          /\ call.ret[1].port = graph.port
    /\ call.op = "EndContext" =>
          /\ call.ret = <<>>
          /\ call.context.address = graph.address
          /\ call.context.port = graph.port

\* a run that went through two wrapped nodes and reached EndContext
GraphRunWitness ==
    /\ call.op = "EndContext"
    /\ graph.phase = "ended"
    /\ graph.hops >= 2
    /\ graph.port = 0

\* C3: INPUT_TYPES() of a class decorated with
\* add_context_input_enabled_and_output holds, under "required", the context
\* entry and the enable_this_node entry, and holds every entry of the class
\* body's schema in its own section unchanged; on every call.
DecoratedSchemaHoldsContextAndOriginal ==
    (call.op = "INPUT_TYPES"
        /\ call.decorator = "add_context_input_enabled_and_output") =>
        LET schema == call.ret
            body == orig["INPUT_TYPES"].body
        IN /\ "required" \in DOMAIN schema
           /\ "context" \in DOMAIN schema["required"]
           /\ schema["required"]["context"][1] = CONTEXT_TYPE
           /\ schema["required"]["context"][2] = [forceInput |-> "True"]
           /\ "enable_this_node" \in DOMAIN schema["required"]
           /\ schema["required"]["enable_this_node"][1] = "BOOLEAN"
           /\ schema["required"]["enable_this_node"][2] = [default |-> "True"]
           /\ \A section \in DOMAIN body :
                 /\ section \in DOMAIN schema
                 /\ \A k \in DOMAIN body[section] :
                       /\ k \in DOMAIN schema[section]
                       /\ schema[section][k] = body[section][k]

\* the second call in a row of the decorated INPUT_TYPES of a class whose
\* body declares required and optional inputs
DecoratedSchemaWitness ==
    /\ call.op = "INPUT_TYPES"
    /\ call.decorator = "add_context_input_enabled_and_output"
    /\ call.nth = 2
    /\ DOMAIN orig["INPUT_TYPES"].body = {"required", "optional"}

OrigReturnTypes == getattr(orig, "RETURN_TYPES", <<>>)
OrigReturnNames == getattr(orig, "RETURN_NAMES", <<>>)

\* the tuple a node of the module returned is as long as its RETURN_TYPES
NodeResultMatchesDeclared ==
    (call.op \in NodeNames /\ call.raised = "") =>
        Len(call.ret) = Len(NodeClass(call.op)["RETURN_TYPES"])

\* after decoration RETURN_TYPES and RETURN_NAMES start with the context
\* entry, followed by the entries of the class body in their order
DecoratedOutputsStartWithContext ==
    cls.decorator # "none" =>
        /\ cls.attrs["RETURN_TYPES"] = <<CONTEXT_TYPE>> \o OrigReturnTypes
        /\ cls.attrs["RETURN_NAMES"] = <<"context">> \o OrigReturnNames

\* C4 as claimed: every node's result is as long as its RETURN_TYPES, also
\* for a class under either decorator whose method returns as many values as
\* its original RETURN_TYPES; after decoration RETURN_NAMES is as long as
\* RETURN_TYPES.
ResultMatchesDeclaredUnderEitherDecorator ==
    /\ NodeResultMatchesDeclared
    /\ DecoratedOutputsStartWithContext
    /\ (call.op = "execute" /\ call.decorator # "none" /\ call.raised = ""
            /\ call.decorator = cls.decorator
            /\ orig["execute"].n = Len(OrigReturnTypes)) =>
          Len(call.ret) = Len(cls.attrs["RETURN_TYPES"])
    /\ cls.decorator # "none" =>
          Len(cls.attrs["RETURN_NAMES"]) = Len(cls.attrs["RETURN_TYPES"])

\* C4: every node's result is as long as its RETURN_TYPES; so is the result
\* of a class under add_context_input_enabled_and_output whose method returns
\* as many values as its original RETURN_TYPES; under add_context_outputs
\* alone the method is not wrapped and its result is as long as the final
\* RETURN_TYPES exactly when it returns one value more than the original
\* RETURN_TYPES; after decoration RETURN_TYPES and RETURN_NAMES start with
\* the context entry followed by the original entries, and are equally long
\* exactly when the original ones were.
ResultMatchesDeclared ==
    /\ NodeResultMatchesDeclared
    /\ DecoratedOutputsStartWithContext
    /\ (call.op = "execute" /\ call.raised = "" /\ call.decorator = cls.decorator
            /\ call.decorator = "add_context_input_enabled_and_output"
            /\ orig["execute"].n = Len(OrigReturnTypes)) =>
          Len(call.ret) = Len(cls.attrs["RETURN_TYPES"])
    /\ (call.op = "execute" /\ call.raised = "" /\ call.decorator = cls.decorator
            /\ call.decorator = "add_context_outputs") =>
          /\ Len(call.ret) = orig["execute"].n
          /\ Len(call.ret) = Len(cls.attrs["RETURN_TYPES"])
                <=> orig["execute"].n = Len(OrigReturnTypes) + 1
    /\ cls.decorator # "none" =>
          (Len(cls.attrs["RETURN_NAMES"]) = Len(cls.attrs["RETURN_TYPES"])
              <=> Len(OrigReturnNames) = Len(OrigReturnTypes))

\* a class with two outputs and no RETURN_NAMES, under add_context_outputs
\* alone, whose method returns two values, has been executed
ResultMatchesDeclaredWitness ==
    /\ call.op = "execute"
    /\ call.raised = ""
    /\ call.decorator = "add_context_outputs"
    /\ cls.decorator = "add_context_outputs"
    /\ "RETURN_NAMES" \notin DOMAIN orig
    /\ Len(OrigReturnTypes) = 2
    /\ OrigReturnTypes[1] # OrigReturnTypes[2]
    /\ orig["execute"].n = 2

\* C5 as claimed: the batch passed as switcher is the selector, the choice
\* following every selector value supplied.
SwitchFollowsEverySelectorValue ==
    (call.op = "Switch" /\ call.switcher # <<>>) =>
        /\ call.raised = ""
        /\ \A i \in DOMAIN call.switcher :
              /\ call.switcher[i] => call.ret = <<call.if_true>>
              /\ ~call.switcher[i] => call.ret = <<call.if_false>>

\* C5: for a non-empty switcher list Switch.execute returns the one-element
\* tuple holding if_true unchanged when the first item of switcher is true
\* and if_false unchanged when it is false, whatever the later items and
\* whatever the types of the two values.
SwitchFollowsFirstSelectorValue ==
    (call.op = "Switch" /\ call.switcher # <<>>) =>
        /\ call.raised = ""
        /\ Len(call.ret) = 1
        /\ call.switcher[1] => call.ret[1] = call.if_true
        /\ ~call.switcher[1] => call.ret[1] = call.if_false

\* Switch given values of different types and a switcher whose first item is
\* false and whose second is true
SwitchWitness ==
    /\ call.op = "Switch"
    /\ call.switcher = <<FALSE, TRUE>>
    /\ Len(call.if_true) = 1
    /\ Len(call.if_false) = 1
    /\ call.if_true[1].type # call.if_false[1].type

\* C6 as claimed: the match-all type compares equal to every type name, with
\* == true and != false, on either side.
MatchAllEqualsEverything ==
    call.op = "compare" => (call.eq /\ ~call.ne)

\* C6: for every type name t, != between the match-all type and t is false
\* on either side; == between them is true only for the name "*".
MatchAllNeverUnequal ==
    call.op = "compare" =>
        /\ ~call.ne
        /\ call.eq <=> call.t = "*"

\* a type name on the left compared with the match-all output type of Switch
MatchAllWitness ==
    /\ call.op = "compare"
    /\ call.side = "right"
    /\ call.slot = "output"
    /\ call.t = "STRING"

\* C7: StringConcatenate.execute returns the one-element tuple holding
\* string1, then the separator, then string2; the separator is "_" when
\* none is passed; with the empty separator the result is string1 + string2.
ConcatenateJoinsWithSeparator ==
    call.op = "StringConcatenate" =>
        LET a == call.string1
            b == call.string2
            sep == IF call.passed = <<>> THEN <<"_">> ELSE call.passed[1]
        IN /\ Len(call.ret) = 1
           /\ Len(call.ret[1]) = Len(a) + Len(sep) + Len(b)
           /\ \A i \in 1..Len(a) : call.ret[1][i] = a[i]
           /\ \A i \in 1..Len(sep) : call.ret[1][Len(a) + i] = sep[i]
           /\ \A i \in 1..Len(b) : call.ret[1][Len(a) + Len(sep) + i] = b[i]
           /\ call.passed = <<<<>>>> => call.ret[1] = a \o b

\* two non-empty strings joined with no separator passed
ConcatenateWitness ==
    /\ call.op = "StringConcatenate"
    /\ call.passed = <<>>
    /\ call.string1 # <<>>
    /\ call.string2 # <<>>

\* C8: InvertBool.execute returns false for true and true for false; its
\* output fed back into it gives back the boolean first given.
InvertNegates ==
    call.op = "InvertBool" =>
        /\ Len(call.ret) = 1
        /\ call.value = TRUE => call.ret[1] = FALSE
        /\ call.value = FALSE => call.ret[1] = TRUE
        /\ call.fed % 2 = 1 => call.ret[1] = call.first
        /\ call.fed % 2 = 0 => call.ret[1] # call.first

\* the output of InvertBool(true) has been fed back once
InvertWitness ==
    /\ call.op = "InvertBool"
    /\ call.fed = 1
    /\ call.first = TRUE

\* C9: a wrapped call whose keywords lack "context" or "enable_this_node"
\* raises; the original method is not called and no tuple is returned.
MissingKeyRaises ==
    (call.op = "wrapper" /\ ~(Reserved \subseteq DOMAIN call.kwargs)) =>
        /\ call.raised = "KeyError"
        /\ call.received = <<>>
        /\ call.ret = <<>>

\* a wrapped call given "context" but not "enable_this_node"
MissingKeyWitness ==
    /\ call.op = "wrapper"
    /\ "context" \in DOMAIN call.kwargs
    /\ "enable_this_node" \notin DOMAIN call.kwargs
    /\ "value" \in DOMAIN call.kwargs

\* C10 as claimed: a wrapped call that raises leaves the instance's
\* attributes as they were, and one that returns leaves both holding the
\* values passed to it.
AttributesSetOnlyBySuccessfulCall ==
    call.op = "wrapper" =>
        /\ call.raised # "" => instance = call.before
        /\ call.raised = "" =>
              /\ instance["context"] = call.kwargs["context"]
              /\ instance["enable_this_node"] = call.kwargs["enable_this_node"]

\* C10: a wrapped call lacking "context" leaves the instance's attributes as
\* they were; one given "context" but not "enable_this_node" raises after
\* storing the context passed, enable_this_node staying as it was; one that
\* returns leaves enable_this_node holding the flag passed and context
\* holding the context passed, unless the method itself reassigned
\* self.context.
AttributesSetInExtractionOrder ==
    call.op = "wrapper" =>
        /\ "context" \notin DOMAIN call.kwargs => instance = call.before
        /\ ("context" \in DOMAIN call.kwargs
                /\ "enable_this_node" \notin DOMAIN call.kwargs) =>
              /\ call.raised = "KeyError"
              /\ instance = setattr(call.before, "context", call.kwargs["context"])
        /\ call.raised = "" =>
              /\ DOMAIN instance = Reserved
              /\ instance["enable_this_node"] = call.kwargs["enable_this_node"]
              /\ call.func.kind # "reassign" =>
                    instance["context"] = call.kwargs["context"]
              /\ call.func.kind = "reassign" =>
                    instance["context"] = ReassignedContext

\* a call lacking enable_this_node made on an instance that held another
\* context and a flag from an earlier call
AttributesWitness ==
    /\ call.op = "wrapper"
    /\ call.raised = "KeyError"
    /\ "context" \in DOMAIN call.kwargs
    /\ DOMAIN call.before = Reserved
    /\ call.before["context"] # call.kwargs["context"]
    /\ call.before["context"] # ReassignedContext

====
